---- MODULE Spec2Model ----
(***************************************************************************)
(* Model of depot/splat-worker/src/worker.py: the job lifecycle            *)
(* (process_job, main, JobHandler.on_created), the session loader          *)
(* (load_poses, load_pcd, load_session_data), the splatting stage          *)
(* (run_gaussian_splatting), pose interpolation (interpolate_pose) and the *)
(* point cloud preprocessing (voxel_downsample,                            *)
(* remove_statistical_outliers, filter_ground_plane,                       *)
(* preprocess_point_cloud).                                                *)
(*                                                                         *)
(* The specifications share the variables:                                 *)
(*   Spec         one run of process_job on one descriptor, step by step;  *)
(*   WorkerSpec   main() and the watcher over a queue of descriptors;      *)
(*   VoxelSpec    voxel_downsample applied to bounded clouds;              *)
(*   OutlierSpec  remove_statistical_outliers applied to bounded clouds;   *)
(*   GroundSpec   filter_ground_plane, one RANSAC trial at a time;         *)
(*   PoseSpec     interpolate_pose applied to bounded pose sequences;      *)
(*   PreSpec      preprocess_point_cloud, one stage at a time.             *)
(* Point clouds are counted (len(points)) in Spec and are sequences of     *)
(* integer coordinate triples elsewhere.                                   *)
(***************************************************************************)
EXTENDS Integers, Sequences, FiniteSets, TLC

\* ---------------------------------------------------------------- bounds
\* Lines of a csv file (poses.csv, timestamps.csv), the header included.
MaxLines == 2
\* Numbered LiDAR frame files (1.pcd .. MaxFrames.pcd) and camera images.
MaxFrames == 1
\* Points a readable, non-empty .pcd frame holds.
FramePoints == 120
\* Descriptor files the producer ever creates (WorkerSpec).
MaxFiles == 3
\* Points of an input cloud (VoxelSpec).
MaxPoints == 3
\* Points of an input cloud (OutlierSpec).
MaxOutlierPoints == 4
\* A very large std_ratio (OutlierSpec).
LargeStdRatio == 100
\* Points of an input cloud (GroundSpec).
MaxGroundPoints == 4
\* RANSAC iterations asked for (GroundSpec).
MaxTrials == 2
\* The leading points of a cloud among which a trial's sample is drawn.
SampleSpan == 4
\* Poses of a pose sequence (PoseSpec).
MaxPoses == 3
\* Points of an input cloud that share a voxel with an earlier one (PreSpec).
MaxExtras == 1

\* ------------------------------------------------------ program constants
\* SplatConfig.iterations default.
DefaultIterations == 30000
\* run_gaussian_splatting: `if len(points) < 100`.
MinSplatPoints == 100
\* preprocess_point_cloud: `if remove_outliers and len(points) > 50`.
OutlierMinPoints == 50

\* preprocess_point_cloud: `if filter_ground and len(points) > 100`.
GroundMinPoints == 100
\* remove_statistical_outliers: k_neighbors: int = 20, std_ratio: float = 2.0.
DefaultKNeighbors == 20
DefaultStdRatio == 2
\* filter_ground_plane: ransac_iterations: int = 100.
DefaultRansacIterations == 100
\* interpolate_pose: `if dt < 1e-6`, in ticks of half a microsecond.
EpsilonTicks == 2

\* The iteration count a descriptor's config may carry instead of the default.
JobIterations == 1000

SeqsUpTo(S, n) == UNION {[1..k -> S] : k \in 0..n}

\* The sequence f with every entry evaluated once.
Tabulated(f) == SubSeq(f, 1, Len(f))

\* ------------------------------------------------------------- variables
VARIABLES
    \* Spec: one process_job run
    pc,          \* position inside process_job
    descriptor,  \* what json.load read from the descriptor file
    input,       \* what the last step read from the file system / environment
    HAS_GSPLAT,  \* module-level flag set at import time
    job,         \* the parsed Job (or NoJob)
    ld,          \* load_session_data's locals as they are built up
    stats,       \* run_gaussian_splatting's stats dict
    out,         \* the job's output directory: splat.ply and result.json
    calls,       \* which collaborators process_job has invoked
    exc,         \* the stages that raised an exception during this run
    \* descriptor locations (Spec and WorkerSpec)
    queue, processed, failed,
    \* WorkerSpec: main() and the watcher
    main_pc, existing_jobs, events, created, proc, runs,
    \* VoxelSpec
    vpc, points, voxel_size, downsampled, again,
    \* OutlierSpec: one call of remove_statistical_outliers
    opc, o_points, k_neighbors, std_ratio, scipy, filtered,
    \* GroundSpec: filter_ground_plane, one RANSAC trial at a time
    gpc, g_points, ransac_iterations, trial, candidates, best_inliers,
    best_inlier_count, non_ground_points, ground_points,
    \* PoseSpec: one call of interpolate_pose
    ipc, poses, timestamp, interpolated,
    \* PreSpec: preprocess_point_cloud, one stage at a time
    ppc, p_input, p_voxel_size, remove_outliers, filter_ground, p_points,
    p_downsampled, p_cleaned, p_result

jobvars == <<pc, descriptor, input, HAS_GSPLAT, job, ld, stats, out, calls, exc>>
dirvars == <<queue, processed, failed>>
workervars == <<main_pc, existing_jobs, events, created, proc, runs>>
voxelvars == <<vpc, points, voxel_size, downsampled, again>>
outliervars == <<opc, o_points, k_neighbors, std_ratio, scipy, filtered>>
groundvars == <<gpc, g_points, ransac_iterations, trial, candidates, best_inliers,
                best_inlier_count, non_ground_points, ground_points>>
posevars == <<ipc, poses, timestamp, interpolated>>
prevars == <<ppc, p_input, p_voxel_size, remove_outliers, filter_ground, p_points,
             p_downsampled, p_cleaned, p_result>>
geomvars == <<outliervars, groundvars, posevars, prevars>>
vars == <<jobvars, dirvars, workervars, voxelvars, geomvars>>

\* ===================================================================
\* Session files as the loader sees them
\* ===================================================================
\* A csv line is "ok" (enough comma-separated parts, all numeric), "short"
\* (too few parts) or "bad" (enough parts, one of them not a number: a header
\* line is such a line).
LineKinds == {"ok", "short", "bad"}

\* The line in the header position is consumed unread: a header, or (in a file
\* written without one) a data row.
FirstLines == {"bad", "ok"}

\* poses.csv: absent, empty, or a first line and at most MaxLines - 1 more.
PoseFiles ==
    {[exists |-> FALSE, lines |-> <<>>], [exists |-> TRUE, lines |-> <<>>]} \cup
    {[exists |-> TRUE, lines |-> <<h>> \o r] :
        h \in FirstLines, r \in SeqsUpTo(LineKinds, MaxLines - 1)}

\* A timestamps.csv row: an "ok" row names a frame number.
TimestampLines ==
    {[kind |-> "ok", frame |-> n] : n \in 1..MaxFrames} \cup
    {[kind |-> k, frame |-> 1] : k \in {"short", "bad"}}

TimestampFiles ==
    {[exists |-> FALSE, lines |-> <<>>], [exists |-> TRUE, lines |-> <<>>]} \cup
    {[exists |-> TRUE, lines |-> <<[kind |-> h, frame |-> 1]>> \o r] :
        h \in FirstLines, r \in SeqsUpTo(TimestampLines, MaxLines - 1)}

NoFile == [exists |-> FALSE, lines |-> <<>>]

\* A .pcd file: not there, unreadable (open or float() raises), without data
\* lines, or holding FramePoints points.
PcdStates == {"missing", "unreadable", "empty", "points"}

\* lidar/: absent, or timestamps.csv, the numbered frames 1.pcd.., and whether
\* there is a .pcd file with points whose stem is not a number.
LidarDirs ==
    {[exists |-> FALSE, timestamps |-> NoFile,
      frames |-> [n \in 1..MaxFrames |-> "missing"], named |-> FALSE]} \cup
    {[exists |-> TRUE, timestamps |-> t, frames |-> f, named |-> x] :
        t \in TimestampFiles, f \in [1..MaxFrames -> PcdStates], x \in BOOLEAN}

\* camera/: absent, or timestamps.csv and a number of .jpg files.
CameraDirs ==
    {[exists |-> FALSE, timestamps |-> NoFile, images |-> 0]} \cup
    {[exists |-> TRUE, timestamps |-> t, images |-> n] :
        t \in TimestampFiles, n \in {0, MaxFrames}}

\* ===================================================================
\* load_poses, load_pcd, load_session_data
\* ===================================================================
IsOk(l) == l = "ok"

\* load_poses without the `if not poses_file.exists()` guard: open() raises.
load_poses_unguarded(file) ==
    IF ~file.exists \/ file.lines = <<>> THEN [raised |-> "OSError", poses |-> 0]
    ELSE [raised |-> "none", poses |-> Len(SelectSeq(Tail(file.lines), IsOk))]

\* load_poses: the number of poses read, or the exception that escapes.
\* next(f) on an empty file raises StopIteration; a line with fewer than 8
\* parts is passed over; a ValueError of float() is caught per line.
load_poses(file) ==
    IF ~file.exists THEN [raised |-> "none", poses |-> 0]
    ELSE IF file.lines = <<>> THEN [raised |-> "StopIteration", poses |-> 0]
    ELSE [raised |-> "none", poses |-> Len(SelectSeq(Tail(file.lines), IsOk))]

\* The timestamp-table loops of load_session_data (lidar and camera): next(f)
\* skips the header; int()/float() of a row are not guarded.
timestamps_raised(file) ==
    IF ~file.exists THEN "none"
    ELSE IF file.lines = <<>> THEN "StopIteration"
    ELSE IF \E i \in 2..Len(file.lines) : file.lines[i].kind = "bad" THEN "ValueError"
    ELSE "none"

\* The frame numbers the table maps to a timestamp.
timestamp_frames(file) ==
    IF ~file.exists THEN {}
    ELSE {file.lines[i].frame : i \in {j \in 2..Len(file.lines) : file.lines[j].kind = "ok"}}

\* The rows that yield a camera pose record.
timestamp_rows(file) ==
    IF ~file.exists THEN 0
    ELSE Cardinality({j \in 2..Len(file.lines) : file.lines[j].kind = "ok"})

\* load_pcd: the number of points, or None (-1) for an unreadable file (the
\* exception is caught) and for a file without points.
None == -1
load_pcd(pcd) == IF pcd = "points" THEN FramePoints ELSE None

RECURSIVE SumOver(_, _)
SumOver(f, S) ==
    IF S = {} THEN 0
    ELSE LET x == CHOOSE y \in S : TRUE IN f[x] + SumOver(f, S \ {x})

\* The LiDAR part of load_session_data, given the poses already loaded.
\* A frame is kept when load_pcd returns points and its stem is a number (the
\* file dir.named never is: int(stem) raises ValueError and the loop goes on);
\* it is transformed to the world frame when it has a timestamp and poses exist.
LoadLidar(nposes, dir) ==
    LET tsr == timestamps_raised(dir.timestamps)
        lidar_timestamps == timestamp_frames(dir.timestamps)
        present == {n \in 1..MaxFrames : dir.frames[n] # "missing"}
        kept == {n \in present : load_pcd(dir.frames[n]) # None /\ load_pcd(dir.frames[n]) # 0}
        world == {n \in kept : n \in lidar_timestamps /\ nposes > 0}
        count == [n \in 1..MaxFrames |-> load_pcd(dir.frames[n])]
    IN  IF ~dir.exists THEN [raised |-> "none", points |-> 0, world |-> 0]
        ELSE IF tsr # "none" THEN [raised |-> tsr, points |-> 0, world |-> 0]
        ELSE [raised |-> "none", points |-> SumOver(count, kept),
              world |-> SumOver(count, world)]

\* The camera part of load_session_data: the image list and one pose record
\* per timestamp row (interpolated when poses exist, the identity otherwise).
LoadCamera(nposes, dir) ==
    LET tsr == timestamps_raised(dir.timestamps)
        rows == timestamp_rows(dir.timestamps)
    IN  IF ~dir.exists THEN [raised |-> "none", images |-> 0, camera_poses |-> 0, identity |-> 0]
        ELSE IF tsr # "none"
             THEN [raised |-> tsr, images |-> dir.images, camera_poses |-> 0, identity |-> 0]
        ELSE [raised |-> "none", images |-> dir.images, camera_poses |-> rows,
              identity |-> IF nposes > 0 THEN 0 ELSE rows]

\* ===================================================================
\* Job.from_json
\* ===================================================================
\* What json.load yields for a descriptor file: a syntax error, a value that is
\* not an object, or an object with some of the keys. A config is absent, sets
\* iterations, or holds only a key SplatConfig does not have.
RequiredKeys == {"id", "session_path", "output_path"}

Descriptors ==
    {[json |-> j, keys |-> {}, config |-> "absent"] : j \in {"malformed", "array"}} \cup
    {[json |-> "object", keys |-> k, config |-> c] :
        k \in SUBSET RequiredKeys, c \in {"absent", "iterations", "unknown"}}

NoJob == [parsed |-> FALSE, iterations |-> 0]

\* from_json reading output_path with data.get: a missing key goes unnoticed.
from_json_lenient(data) ==
    IF data.json = "malformed" THEN [raised |-> "JSONDecodeError", job |-> NoJob]
    ELSE IF data.json = "array" THEN [raised |-> "AttributeError", job |-> NoJob]
    ELSE IF ~({"id", "session_path"} \subseteq data.keys)
    THEN [raised |-> "KeyError", job |-> NoJob]
    ELSE [raised |-> "none", job |-> [parsed |-> TRUE, iterations |-> DefaultIterations]]

\* json.load followed by Job.from_json: the Job, or the exception raised.
\* Unknown config keys are filtered out; data['id'], data['session_path'] and
\* data['output_path'] raise KeyError when missing.
from_json(data) ==
    IF data.json = "malformed" THEN [raised |-> "JSONDecodeError", job |-> NoJob]
    ELSE IF data.json = "array" THEN [raised |-> "AttributeError", job |-> NoJob]
    ELSE IF ~(RequiredKeys \subseteq data.keys) THEN [raised |-> "KeyError", job |-> NoJob]
    ELSE [raised |-> "none",
          job |-> [parsed |-> TRUE,
                   iterations |-> IF data.config = "iterations" THEN JobIterations
                                  ELSE DefaultIterations]]

\* ===================================================================
\* run_gaussian_splatting
\* ===================================================================
\* The point counts preprocess_point_cloud can return for n > 0 input points:
\* voxel_downsample keeps between 1 and n points; remove_statistical_outliers
\* runs only above OutlierMinPoints and keeps any number of them, none included.
CleanedCounts(n) ==
    {c \in {0, 1, OutlierMinPoints, MinSplatPoints - 1, MinSplatPoints, n} :
        c <= n /\ (c = 0 => n > OutlierMinPoints)}

\* What the environment decides during one run_gaussian_splatting call on n
\* points (an empty cloud is not preprocessed).
SplatEnvs(n) ==
    [mkdir_fails : BOOLEAN, preprocess_fails : BOOLEAN,
     cleaned : IF n > 0 THEN CleanedCounts(n) ELSE {0},
     train_fails : BOOLEAN, export_fails : BOOLEAN]

NoStats == [status |-> "none"]

\* The handler recording the error but leaving the status as it was.
FailedKeepsStatus(s) == s @@ ("error" :> "exception")

\* except Exception: stats['status'] = 'failed'; stats['error'] = str(e)
Failed(s) == [s EXCEPT !["status"] = "failed"] @@ ("error" :> "exception")

\* stats['duration_secs'] = time.time() - start_time
Timed(s) == s @@ ("duration_secs" :> 0)

\* `if len(points) < 100`: status insufficient_data with a message; the points
\* that are left (if any) are saved as splat.ply; `return stats` leaves the
\* function before duration_secs is set.
InsufficientBranch(stats1, n, env) ==
    LET insufficient == [stats1 EXCEPT !["status"] = "insufficient_data"]
                            @@ ("message" :> "not enough points")
    IN  IF n > 0
        THEN IF env.export_fails
             THEN [error |-> "exporter", stats |-> Timed(Failed(insufficient)),
                   splat |-> "partial", called |-> {"exporter"}]
             ELSE [error |-> "none",
                   stats |-> [insufficient EXCEPT !["status"] = "point_cloud_only"]
                                 @@ ("output_points" :> n),
                   splat |-> "points", called |-> {"exporter"}]
        ELSE [error |-> "none", stats |-> insufficient, splat |-> "none", called |-> {}]

\* `if HAS_GSPLAT`: train_gaussians, export_gaussians_to_ply, status success.
TrainBranch(stats1, n, env) ==
    IF env.train_fails
    THEN [error |-> "trainer", stats |-> Timed(Failed(stats1)), splat |-> "none",
          called |-> {"trainer"}]
    ELSE IF env.export_fails
    THEN [error |-> "exporter", stats |-> Timed(Failed(stats1)), splat |-> "partial",
          called |-> {"trainer", "exporter"}]
    ELSE [error |-> "none",
          stats |-> Timed([stats1 EXCEPT !["status"] = "success"]
                              @@ ("output_gaussians" :> n)),
          splat |-> "gaussians", called |-> {"trainer", "exporter"}]

\* The fallback reporting itself as a trained result.
FallbackAsSuccess(stats1, n, env) ==
    [error |-> "none",
     stats |-> Timed([stats1 EXCEPT !["status"] = "success"] @@ ("output_gaussians" :> n)),
     splat |-> "points", called |-> {"exporter"}]

\* `else`: save_points_as_ply, status point_cloud_only with a message.
FallbackBranch(stats1, n, env) ==
    IF env.export_fails
    THEN [error |-> "exporter", stats |-> Timed(Failed(stats1)), splat |-> "partial",
          called |-> {"exporter"}]
    ELSE [error |-> "none",
          stats |-> Timed([stats1 EXCEPT !["status"] = "point_cloud_only"]
                              @@ ("output_points" :> n
                                  @@ "message" :> "gsplat not available")),
          splat |-> "points", called |-> {"exporter"}]

\* run_gaussian_splatting on len(points), len(poses), len(images): the stage
\* that raised (mkdir is outside the try and escapes; the others are caught),
\* the stats returned, the splat.ply left behind and the collaborators called.
run_gaussian_splatting(npoints, nposes, nimages, iterations, has_gsplat, env) ==
    LET stats0 == [input_points |-> npoints, input_images |-> nimages,
                   input_poses |-> nposes, iterations |-> iterations,
                   status |-> "pending"]
        n == IF npoints > 0 THEN env.cleaned ELSE npoints
        stats1 == IF npoints > 0 THEN stats0 @@ ("preprocessed_points" :> n) ELSE stats0
        pipe == IF npoints > 0 THEN {"pipeline"} ELSE {}
        r == IF n < MinSplatPoints THEN InsufficientBranch(stats1, n, env)
             ELSE IF has_gsplat THEN TrainBranch(stats1, n, env)
             ELSE FallbackBranch(stats1, n, env)
    IN  IF env.mkdir_fails
        THEN [error |-> "mkdir", stats |-> NoStats, splat |-> "none", called |-> {}]
        ELSE IF npoints > 0 /\ env.preprocess_fails
        THEN [error |-> "pipeline", stats |-> Timed(Failed(stats0)), splat |-> "none",
              called |-> pipe]
        ELSE [r EXCEPT !.called = @ \cup pipe]

\* ===================================================================
\* process_job, one step at a time (Spec)
\* ===================================================================
\* The descriptor process_job runs on in Spec.
JobPath == 1

NoDescriptor == [json |-> "unread", keys |-> {}, config |-> "absent"]
NoInput == [kind |-> "none"]
NoLoad == [absent |-> {}, poses |-> 0, points |-> 0, world |-> 0, images |-> 0,
           camera_poses |-> 0, identity |-> 0]
NoOutput == [dir |-> FALSE, splat |-> "none", result |-> "none", writes |-> 0,
             record |-> [status |-> "none", stats |-> NoStats]]

WorkerIdle ==
    /\ main_pc = "off" /\ existing_jobs = {} /\ events = <<>> /\ created = {}
    /\ proc = 0 /\ runs = [f \in 1..MaxFiles |-> 0]

VoxelIdle ==
    /\ vpc = "off" /\ points = <<>> /\ voxel_size = 1
    /\ downsampled = <<>> /\ again = <<>>

\* best_inliers = None: no mask yet (a mask has one entry per point, and the
\* loop runs on 3 points or more).
NoMask == <<>>

OutlierIdle ==
    /\ opc = "off" /\ o_points = <<>> /\ k_neighbors = 0 /\ std_ratio = 0
    /\ scipy = FALSE /\ filtered = <<>>

GroundIdle ==
    /\ gpc = "off" /\ g_points = <<>> /\ ransac_iterations = 0 /\ trial = 0
    /\ candidates = 0
    /\ best_inliers = NoMask /\ best_inlier_count = 0
    /\ non_ground_points = <<>> /\ ground_points = <<>>

PoseIdle ==
    /\ ipc = "off" /\ poses = <<>> /\ timestamp = 0
    /\ interpolated = [timestamp |-> -1]

PreIdle ==
    /\ ppc = "off" /\ p_input = <<>> /\ p_voxel_size = 1
    /\ remove_outliers = FALSE /\ filter_ground = FALSE /\ p_points = <<>>
    /\ p_downsampled = <<>> /\ p_cleaned = <<>> /\ p_result = <<>>

DirsIdle == queue = {} /\ processed = {} /\ failed = {}

JobIdle ==
    /\ pc = "off" /\ descriptor = NoDescriptor /\ input = NoInput
    /\ HAS_GSPLAT = FALSE /\ job = NoJob /\ ld = NoLoad /\ stats = NoStats
    /\ out = NoOutput /\ calls = {} /\ exc = {}

\* process_job is entered with the descriptor in the queue directory.
Init ==
    /\ pc = "parse" /\ descriptor = NoDescriptor /\ input = NoInput
    /\ HAS_GSPLAT \in BOOLEAN /\ job = NoJob /\ ld = NoLoad /\ stats = NoStats
    /\ out = NoOutput /\ calls = {} /\ exc = {}
    /\ queue = {JobPath} /\ processed = {} /\ failed = {}
    /\ WorkerIdle /\ VoxelIdle
    /\ OutlierIdle /\ GroundIdle /\ PoseIdle /\ PreIdle

\* Files the loader found missing, by name.
Missing(name, exists) == IF exists THEN {} ELSE {name}

\* The stage that raised, if one did.
Raised(stage, raised) == IF raised THEN {stage} ELSE {}

\* open(job_path), json.load, Job.from_json.
PJ_Parse ==
    /\ pc = "parse"
    /\ \E data \in Descriptors :
        LET r == from_json(data) IN
        /\ descriptor' = data
        /\ job' = r.job
        /\ exc' = exc \cup Raised("parse", r.raised # "none")
        /\ pc' = IF r.raised = "none" THEN "load_poses" ELSE "except"
    /\ UNCHANGED <<input, HAS_GSPLAT, ld, stats, out, calls, dirvars, workervars,
                   voxelvars, geomvars>>

\* load_session_data: poses = load_poses(session_path).
PJ_LoadPoses ==
    /\ pc = "load_poses"
    /\ \E file \in PoseFiles :
        LET r == load_poses(file) IN
        /\ input' = [kind |-> "poses.csv", value |-> file]
        /\ ld' = [ld EXCEPT !.poses = r.poses,
                            !.absent = @ \cup Missing("poses.csv", file.exists)]
        /\ exc' = exc \cup Raised("loader", r.raised # "none")
        /\ pc' = IF r.raised = "none" THEN "load_lidar" ELSE "except"
    /\ calls' = calls \cup {"loader"}
    /\ UNCHANGED <<descriptor, HAS_GSPLAT, job, stats, out, dirvars, workervars,
                   voxelvars, geomvars>>

\* load_session_data: the LiDAR timestamp table and the frames.
PJ_LoadLidar ==
    /\ pc = "load_lidar"
    /\ \E dir \in LidarDirs :
        LET r == LoadLidar(ld.poses, dir) IN
        /\ input' = [kind |-> "lidar", value |-> dir]
        /\ ld' = [ld EXCEPT !.points = r.points, !.world = r.world,
                            !.absent = @ \cup Missing("lidar", dir.exists)
                                         \cup Missing("lidar/timestamps.csv",
                                                      dir.timestamps.exists)]
        /\ exc' = exc \cup Raised("loader", r.raised # "none")
        /\ pc' = IF r.raised = "none" THEN "load_camera" ELSE "except"
    /\ UNCHANGED <<descriptor, HAS_GSPLAT, job, stats, out, calls, dirvars,
                   workervars, voxelvars, geomvars>>

\* load_session_data: the image list and the camera pose records; return.
PJ_LoadCamera ==
    /\ pc = "load_camera"
    /\ \E dir \in CameraDirs :
        LET r == LoadCamera(ld.poses, dir) IN
        /\ input' = [kind |-> "camera", value |-> dir]
        /\ ld' = [ld EXCEPT !.images = r.images, !.camera_poses = r.camera_poses,
                            !.identity = r.identity,
                            !.absent = @ \cup Missing("camera", dir.exists)
                                         \cup Missing("camera/timestamps.csv",
                                                      dir.timestamps.exists)]
        /\ exc' = exc \cup Raised("loader", r.raised # "none")
        /\ pc' = IF r.raised = "none" THEN "splat" ELSE "except"
    /\ UNCHANGED <<descriptor, HAS_GSPLAT, job, stats, out, calls, dirvars,
                   workervars, voxelvars, geomvars>>

\* stats = run_gaussian_splatting(points, poses, images, output_path, config)
PJ_RunSplatting ==
    /\ pc = "splat"
    /\ \E env \in SplatEnvs(ld.points) :
        LET r == run_gaussian_splatting(ld.points, ld.camera_poses, ld.images,
                                        job.iterations, HAS_GSPLAT, env) IN
        /\ input' = [kind |-> "environment", value |-> env]
        /\ stats' = r.stats
        /\ out' = [out EXCEPT !.dir = ~env.mkdir_fails, !.splat = r.splat]
        /\ calls' = calls \cup r.called
        /\ exc' = exc \cup Raised(r.error, r.error # "none")
        /\ pc' = IF r.error = "mkdir" THEN "except" ELSE "write"
    /\ UNCHANGED <<descriptor, HAS_GSPLAT, job, ld, dirvars, workervars, voxelvars, geomvars>>

\* A write that returns normally although the file it leaves is truncated.
WriteResultTruncated(o, st, how) ==
    IF how = "open_fails" THEN o
    ELSE [o EXCEPT !.result = "partial", !.writes = @ + 1,
                   !.record = [status |-> st["status"], stats |-> st]]

\* result = {...}; open(result_path, 'w'); json.dump(result, f)
\* open may raise (nothing written) and json.dump may raise midway (a partial
\* file is left).
WriteResult(o, st, how) ==
    IF how = "open_fails" THEN o
    ELSE [o EXCEPT !.result = IF how = "ok" THEN "complete" ELSE "partial",
                   !.writes = @ + 1,
                   !.record = [status |-> st["status"], stats |-> st]]

PJ_WriteResult ==
    /\ pc = "write"
    /\ \E how \in {"ok", "open_fails", "dump_fails"} :
        /\ input' = [kind |-> "write", value |-> how]
        /\ out' = WriteResult(out, stats, how)
        /\ exc' = exc \cup Raised("result", how # "ok")
        /\ pc' = IF how = "ok" THEN "move" ELSE "except"
    /\ UNCHANGED <<descriptor, HAS_GSPLAT, job, ld, stats, calls, dirvars,
                   workervars, voxelvars, geomvars>>

\* shutil.move(job_path, processed_dir / job_path.name)
MoveProcessed(f) ==
    /\ queue' = queue \ {f}
    /\ processed' = processed \cup {f}
    /\ failed' = failed

\* The handler copying the descriptor to failed/ instead of moving it.
MoveFailedCopies(f) ==
    /\ queue' = queue
    /\ failed' = failed \cup {f}
    /\ processed' = processed

\* except Exception: shutil.move(job_path, failed_dir / job_path.name)
MoveFailed(f) ==
    /\ queue' = queue \ {f}
    /\ failed' = failed \cup {f}
    /\ processed' = processed

PJ_MoveProcessed ==
    /\ pc = "move"
    /\ MoveProcessed(JobPath)
    /\ pc' = "done"
    /\ UNCHANGED <<descriptor, input, HAS_GSPLAT, job, ld, stats, out, calls, exc,
                   workervars, voxelvars, geomvars>>

PJ_MoveFailed ==
    /\ pc = "except"
    /\ MoveFailed(JobPath)
    /\ pc' = "done"
    /\ UNCHANGED <<descriptor, input, HAS_GSPLAT, job, ld, stats, out, calls, exc,
                   workervars, voxelvars, geomvars>>

Next ==
    \/ PJ_Parse
    \/ PJ_LoadPoses
    \/ PJ_LoadLidar
    \/ PJ_LoadCamera
    \/ PJ_RunSplatting
    \/ PJ_WriteResult
    \/ PJ_MoveProcessed
    \/ PJ_MoveFailed

Spec == Init /\ [][Next]_vars

\* ===================================================================
\* main() and JobHandler.on_created (WorkerSpec)
\* ===================================================================
\* In WorkerSpec process_job is entered (proc is set) and left (the
\* descriptor is relocated) in two steps, so that descriptors can be created
\* while a job is being processed; where it relocates the descriptor is left
\* open here and is what Spec is about.
Files == 1..MaxFiles

\* A started worker: some descriptors are already in the queue directory.
WorkerInit ==
    /\ main_pc = "start" /\ existing_jobs = {} /\ events = <<>>
    /\ queue \in SUBSET Files /\ created = queue
    /\ processed = {} /\ failed = {}
    /\ proc = 0 /\ runs = [f \in Files |-> 0]
    /\ JobIdle /\ VoxelIdle
    /\ OutlierIdle /\ GroundIdle /\ PoseIdle /\ PreIdle

\* What the observer delivers for a path created in JOBS_DIR: nothing before
\* observer.start().
Notify(e) == IF main_pc = "watching" THEN Append(events, e) ELSE events

\* A producer creates descriptor f in the queue directory.
Produce(f) ==
    /\ f \notin created
    /\ created' = created \cup {f}
    /\ queue' = queue \cup {f}
    /\ events' = Notify([kind |-> "json", path |-> f])
    /\ UNCHANGED <<main_pc, existing_jobs, proc, runs, processed, failed, jobvars,
                   voxelvars, geomvars>>

\* Something that is not a descriptor appears in JOBS_DIR while it is watched:
\* a subdirectory (processed/ and failed/ are made there) or another file.
ProduceOther(kind) ==
    /\ main_pc = "watching"
    /\ Len(events) < MaxFiles
    /\ events' = Append(events, [kind |-> kind, path |-> 0])
    /\ UNCHANGED <<main_pc, existing_jobs, created, proc, runs, dirvars, jobvars,
                   voxelvars, geomvars>>

\* existing_jobs = list(JOBS_DIR.glob('*.json'))
MainGlob ==
    /\ main_pc = "start"
    /\ existing_jobs' = queue
    /\ main_pc' = "batch"
    /\ UNCHANGED <<events, created, proc, runs, dirvars, jobvars, voxelvars, geomvars>>

\* for job_path in existing_jobs: process_job(job_path)  (entered)
MainProcess(f) ==
    /\ main_pc = "batch" /\ proc = 0
    /\ f \in existing_jobs
    /\ existing_jobs' = existing_jobs \ {f}
    /\ proc' = f
    /\ runs' = [runs EXCEPT ![f] = @ + 1]
    /\ UNCHANGED <<main_pc, events, created, dirvars, jobvars, voxelvars, geomvars>>

\* process_job returns: the descriptor has been moved to processed/ or to
\* failed/. A descriptor that is no longer in the queue cannot be opened nor
\* moved: the exception leaves process_job and ends the caller.
ProcessReturn ==
    /\ proc # 0
    /\ IF proc \in queue
       THEN /\ MoveProcessed(proc) \/ MoveFailed(proc)
            /\ main_pc' = main_pc
       ELSE /\ main_pc' = "crashed"
            /\ UNCHANGED dirvars
    /\ proc' = 0
    /\ UNCHANGED <<existing_jobs, events, created, runs, jobvars, voxelvars, geomvars>>

\* observer.schedule(...); observer.start()
ObserverStart ==
    /\ main_pc = "batch" /\ proc = 0 /\ existing_jobs = {}
    /\ main_pc' = "watching"
    /\ UNCHANGED <<existing_jobs, events, created, proc, runs, dirvars, jobvars,
                   voxelvars, geomvars>>

\* JobHandler.on_created: directories and files that are not .json are passed
\* over; a descriptor is processed after the one-second wait.
on_created ==
    /\ main_pc = "watching" /\ proc = 0
    /\ events # <<>>
    /\ events' = Tail(events)
    /\ IF Head(events).kind = "json"
       THEN /\ proc' = Head(events).path
            /\ runs' = [runs EXCEPT ![Head(events).path] = @ + 1]
       ELSE UNCHANGED <<proc, runs>>
    /\ UNCHANGED <<main_pc, existing_jobs, created, dirvars, jobvars, voxelvars, geomvars>>

WorkerNext ==
    \/ \E f \in Files : Produce(f)
    \/ \E kind \in {"dir", "other"} : ProduceOther(kind)
    \/ MainGlob
    \/ \E f \in Files : MainProcess(f)
    \/ ProcessReturn
    \/ ObserverStart
    \/ on_created

WorkerSpec == WorkerInit /\ [][WorkerNext]_vars

\* ===================================================================
\* voxel_downsample (VoxelSpec)
\* ===================================================================
\* Coordinates are whole numbers of a length unit and the cell size is a whole
\* number of the same unit, so that floor(coord / size) is exact.
CloudPoints ==
    {<<0, 0, 0>>, <<4, 0, 0>>, <<6, 0, 0>>, <<-1, 0, 0>>, <<1280, 0, 0>>,
     <<0, 7, 0>>, <<0, 0, -3>>, <<4, 3, 2>>}

VoxelSizes == {2, 5}

Clouds == SeqsUpTo(CloudPoints, MaxPoints)

\* The four bytes of an int32, least significant first (two's complement).
Int32Bytes(v) ==
    <<v % 256, (v \div 256) % 256, (v \div 65536) % 256, (v \div 16777216) % 256>>

\* The smallest coordinate of the cloud on one axis.
MinCoord(pts, axis) ==
    CHOOSE m \in {pts[i][axis] : i \in 1..Len(pts)} :
        \A i \in 1..Len(pts) : m <= pts[i][axis]

\* The grid anchored at the cloud's minimum bound instead of the origin:
\* np.floor((points - points.min(axis=0)) / voxel_size).
VoxelIndicesFromMinBound(pts, size) ==
    [i \in 1..Len(pts) |-> <<(pts[i][1] - MinCoord(pts, 1)) \div size,
                             (pts[i][2] - MinCoord(pts, 2)) \div size,
                             (pts[i][3] - MinCoord(pts, 3)) \div size>>]

\* np.floor(points / voxel_size).astype(np.int32), one row per point.
VoxelIndices(pts, size) ==
    [i \in 1..Len(pts) |-> <<pts[i][1] \div size, pts[i][2] \div size, pts[i][3] \div size>>]

\* voxel_indices.view(np.void, 12 bytes): a row as the bytes np.unique compares.
VoidView(row) == Int32Bytes(row[1]) \o Int32Bytes(row[2]) \o Int32Bytes(row[3])

\* Byte strings of equal length in memcmp order.
BytesLess(a, b) ==
    \E k \in 1..Len(a) : a[k] < b[k] /\ \A j \in 1..(k - 1) : a[j] = b[j]

\* A sort that leaves equal keys in reverse input order, so that the last
\* point of a cell comes first.
ReverseTiesArgsort(keys) ==
    LET n == Len(keys)
        rank == Tabulated([i \in 1..n |->
                    Cardinality({j \in 1..n : \/ BytesLess(keys[j], keys[i])
                                              \/ keys[j] = keys[i] /\ j > i}) + 1])
    IN  Tabulated([r \in 1..n |-> CHOOSE i \in 1..n : rank[i] = r])

\* np.unique's argsort(kind='mergesort'): the stable sort of the indices by key.
StableArgsort(keys) ==
    LET n == Len(keys)
        rank == Tabulated([i \in 1..n |->
                    Cardinality({j \in 1..n : \/ BytesLess(keys[j], keys[i])
                                              \/ keys[j] = keys[i] /\ j < i}) + 1])
    IN  Tabulated([r \in 1..n |-> CHOOSE i \in 1..n : rank[i] = r])

\* np.unique(..., return_index=True)[1]: the sorted keys' first positions,
\* perm[mask] with mask[0] = True and mask[i] = (aux[i] != aux[i-1]).
\* The entries lo..hi are handled in halves.
RECURSIVE Masked(_, _, _, _)
Masked(perm, aux, lo, hi) ==
    IF lo > hi THEN <<>>
    ELSE IF lo = hi
    THEN (IF lo = 1 \/ aux[lo] # aux[lo - 1] THEN <<perm[lo]>> ELSE <<>>)
    ELSE LET mid == (lo + hi) \div 2
         IN  Masked(perm, aux, lo, mid) \o Masked(perm, aux, mid + 1, hi)

unique_indices(keys) ==
    LET perm == StableArgsort(keys)
        aux == Tabulated([r \in 1..Len(keys) |-> keys[perm[r]]])
    IN  Masked(perm, aux, 1, Len(perm))

\* voxel_downsample: points[unique_indices]; an empty cloud is returned as is.
voxel_downsample(pts, size) ==
    IF Len(pts) = 0 THEN pts
    ELSE LET rows == VoxelIndices(pts, size)
             keys == Tabulated([i \in 1..Len(pts) |-> VoidView(rows[i])])
             idx == unique_indices(keys)
         IN  [j \in 1..Len(idx) |-> pts[idx[j]]]

VoxelInit ==
    /\ vpc = "start" /\ points \in Clouds /\ voxel_size \in VoxelSizes
    /\ downsampled = <<>> /\ again = <<>>
    /\ JobIdle /\ queue = {} /\ processed = {} /\ failed = {} /\ WorkerIdle
    /\ OutlierIdle /\ GroundIdle /\ PoseIdle /\ PreIdle

\* downsampled = voxel_downsample(points, voxel_size)
Downsample ==
    /\ vpc = "start"
    /\ downsampled' = voxel_downsample(points, voxel_size)
    /\ vpc' = "once"
    /\ UNCHANGED <<points, voxel_size, again, jobvars, dirvars, workervars, geomvars>>

\* again = voxel_downsample(downsampled, voxel_size)
DownsampleAgain ==
    /\ vpc = "once"
    /\ again' = voxel_downsample(downsampled, voxel_size)
    /\ vpc' = "twice"
    /\ UNCHANGED <<points, voxel_size, downsampled, jobvars, dirvars, workervars, geomvars>>

VoxelNext == Downsample \/ DownsampleAgain

VoxelSpec == VoxelInit /\ [][VoxelNext]_vars

\* ===================================================================
\* remove_statistical_outliers (OutlierSpec)
\* ===================================================================
\* Clouds whose pairwise distances are whole numbers: the corners of a 6 x 8
\* rectangle (sides 6 and 8, diagonal 10) and the point 12 above its centre
\* (13 from every corner).  The four corners alone are a perfectly uniform
\* cloud for k_neighbors up to 3.
OutlierPoints ==
    {<<0, 0, 0>>, <<6, 0, 0>>, <<0, 8, 0>>, <<6, 8, 0>>, <<3, 4, 12>>}

OutlierClouds == SeqsUpTo(OutlierPoints, MaxOutlierPoints)

\* k_neighbors values asked for (the default is DefaultKNeighbors).
KNeighbors == {1, 2, 3}

\* std_ratio values asked for: 0, the default 2.0 and a very large one.
StdRatios == {0, 2, LargeStdRatio}

Abs(x) == IF x < 0 THEN -x ELSE x

SqDist(p, q) ==
    (p[1] - q[1]) * (p[1] - q[1]) + (p[2] - q[2]) * (p[2] - q[2])
        + (p[3] - q[3]) * (p[3] - q[3])

\* The Euclidean distance of two points that are a whole number apart.
Dist(p, q) ==
    LET bound == Abs(p[1] - q[1]) + Abs(p[2] - q[2]) + Abs(p[3] - q[3])
    IN  CHOOSE r \in 0..bound : r * r = SqDist(p, q)

\* tree.query(points, k + 1) for point i with the first column (the point
\* itself, at distance 0) dropped: the k nearest of the other points.
Neighbors(pts, i, k) ==
    LET others == (1..Len(pts)) \ {i}
        sq == Tabulated([j \in 1..Len(pts) |-> SqDist(pts[i], pts[j])])
    IN  {j \in others :
            Cardinality({l \in others : sq[l] < sq[j] \/ (sq[l] = sq[j] /\ l < j)}) < k}

\* k times np.mean(distances[:, 1:], axis=1), one entry per point.
DistanceSums(pts, k) ==
    Tabulated([i \in 1..Len(pts) |->
        LET d == [j \in 1..Len(pts) |-> Dist(pts[i], pts[j])]
        IN  SumOver(d, Neighbors(pts, i, k))])

\* f[lo] + ... + f[hi], summed in halves.
RECURSIVE SumRange(_, _, _)
SumRange(f, lo, hi) ==
    IF lo > hi THEN 0
    ELSE IF lo = hi THEN f[lo]
    ELSE LET mid == (lo + hi) \div 2
         IN  SumRange(f, lo, mid) + SumRange(f, mid + 1, hi)

\* Each point's deviation from the mean, scaled to a whole number: with s
\* the distance sums of n points, dev[j] = n * s[j] - sum(s), which is
\* n * k * (mean_distances[j] - global_mean).
Deviations(s) ==
    LET n == Len(s)
        total == SumRange(s, 1, n)
    IN  Tabulated([j \in 1..n |-> n * s[j] - total])

\* Whole numbers beyond the 32-bit range are held in two parts, value =
\* hi * Limb + lo with 0 <= lo < Limb.
Limb == 65536

\* m * a for 0 <= a and 0 < m, in two parts.
Times(m, a) ==
    [hi |-> m * (a \div Limb) + ((m * (a % Limb)) \div Limb),
     lo |-> (m * (a % Limb)) % Limb]

\* The sum of m * dev[j]^2 over all points, in two parts.
SumSquares(m, dev) ==
    LET n == Len(dev)
        hi == [j \in 1..n |-> Times(m, dev[j] * dev[j]).hi]
        lo == [j \in 1..n |-> Times(m, dev[j] * dev[j]).lo]
        los == SumRange(lo, 1, n)
    IN  [hi |-> SumRange(hi, 1, n) + (los \div Limb), lo |-> los % Limb]

LessParts(a, b) == a.hi < b.hi \/ (a.hi = b.hi /\ a.lo < b.lo)

\* mean_distances < threshold, with threshold = global_mean + std_ratio *
\* global_std, for point i.  In terms of the deviations the comparison
\* mean_distances[i] - global_mean < std_ratio * sqrt(sum(dev^2)/n) / (n k)
\* is dev[i] < std_ratio * sqrt(sum(dev^2)/n): true when dev[i] < 0, and
\* otherwise n * dev[i]^2 < std_ratio^2 * sum(dev^2), decided without the
\* root; q is std_ratio^2 * sum(dev^2).
BelowThreshold(dev, q, i) ==
    \/ dev[i] < 0
    \/ LessParts(Times(Len(dev), dev[i] * dev[i]), q)

\* points[mask]: the points whose mask entry is True, in input order.
RECURSIVE SelectRange(_, _, _, _)
SelectRange(pts, keep, lo, hi) ==
    IF lo > hi THEN <<>>
    ELSE IF lo = hi THEN (IF keep[lo] THEN <<pts[lo]>> ELSE <<>>)
    ELSE LET mid == (lo + hi) \div 2
         IN  SelectRange(pts, keep, lo, mid) \o SelectRange(pts, keep, mid + 1, hi)

Select(pts, keep) == SelectRange(pts, keep, 1, Len(pts))

\* remove_statistical_outliers(points, k_neighbors, std_ratio); has_scipy is
\* whether `from scipy.spatial import cKDTree` succeeds.
remove_statistical_outliers(pts, k, ratio, has_scipy) ==
    IF Len(pts) < k + 1 THEN pts
    ELSE IF ~has_scipy THEN pts
    ELSE LET dev == Deviations(DistanceSums(pts, k))
             q == SumSquares(ratio * ratio, dev)
             mask == Tabulated([i \in 1..Len(pts) |-> BelowThreshold(dev, q, i)])
         IN  Select(pts, mask)

OutlierInit ==
    /\ opc = "start" /\ o_points \in OutlierClouds /\ k_neighbors \in KNeighbors
    /\ std_ratio \in StdRatios /\ scipy \in BOOLEAN /\ filtered = <<>>
    /\ JobIdle /\ DirsIdle /\ WorkerIdle /\ VoxelIdle
    /\ GroundIdle /\ PoseIdle /\ PreIdle

\* filtered = remove_statistical_outliers(o_points, k_neighbors, std_ratio)
RemoveOutliers ==
    /\ opc = "start"
    /\ filtered' = remove_statistical_outliers(o_points, k_neighbors, std_ratio, scipy)
    /\ opc' = "done"
    /\ UNCHANGED <<o_points, k_neighbors, std_ratio, scipy, jobvars, dirvars,
                   workervars, voxelvars, groundvars, posevars, prevars>>

OutlierNext == RemoveOutliers

OutlierSpec == OutlierInit /\ [][OutlierNext]_vars

\* ===================================================================
\* filter_ground_plane (GroundSpec)
\* ===================================================================
\* Whole-number points: three on the plane z = 0, one a unit above it and
\* one on z = 0 that lies within 0.1 of the slightly tilted plane through
\* the first, third and fourth point.
GroundPoints ==
    {<<0, 0, 0>>, <<10, 0, 0>>, <<0, 10, 0>>, <<10, 0, 1>>, <<1, 0, 0>>}

GroundClouds == SeqsUpTo(GroundPoints, MaxGroundPoints)

Min(a, b) == IF a < b THEN a ELSE b

\* np.random.choice(len(points), 3, replace=False): three distinct indices in
\* the order drawn.  The draws enumerated are those among the first
\* SampleSpan points.
Samples(n) ==
    LET idx == 1..Min(n, SampleSpan)
    IN  {s \in idx \X idx \X idx : s[1] # s[2] /\ s[1] # s[3] /\ s[2] # s[3]}

Minus(p, q) == <<p[1] - q[1], p[2] - q[2], p[3] - q[3]>>

Dot(p, q) == p[1] * q[1] + p[2] * q[2] + p[3] * q[3]

\* np.cross(v1, v2)
Cross(u, v) ==
    <<u[2] * v[3] - u[3] * v[2], u[3] * v[1] - u[1] * v[3], u[1] * v[2] - u[2] * v[1]>>

\* The normal before normalisation: cross(sample[1] - sample[0],
\* sample[2] - sample[0]).
Normal(pts, s) == Cross(Minus(pts[s[2]], pts[s[1]]), Minus(pts[s[3]], pts[s[1]]))

\* `norm < 1e-6`: a whole-number vector is that short only when it is zero.
Collinear(n) == Dot(n, n) = 0

\* `abs(normal[2]) < 0.8` for the normalised normal: |n_z| < 0.8 |n|, that is
\* 25 n_z^2 < 16 |n|^2, or 9 n_z^2 < 16 (n_x^2 + n_y^2); for whole numbers
\* a < 16 m is (a div 16) < m.
Steep(n) == ((9 * n[3] * n[3]) \div 16) < n[1] * n[1] + n[2] * n[2]

\* A sample that passes both `continue` tests.
Candidate(pts, s) == ~Collinear(Normal(pts, s)) /\ ~Steep(Normal(pts, s))

\* distances < ground_threshold with ground_threshold = 0.1, for the plane
\* through pts[s[1]] with normal n: |n . (p - p0)| / |n| < 0.1, that is
\* 100 (n . (p - p0))^2 < |n|^2, or (n . (p - p0))^2 <= (|n|^2 - 1) div 100.
\* The first conjunct (|n| is at most the sum of its components' magnitudes)
\* keeps the square within range.
InlierMask(pts, s) ==
    LET n == Normal(pts, s)
        d(i) == Dot(n, Minus(pts[i], pts[s[1]]))
    IN  [i \in 1..Len(pts) |->
            /\ Abs(d(i)) <= Abs(n[1]) + Abs(n[2]) + Abs(n[3])
            /\ d(i) * d(i) <= (Dot(n, n) - 1) \div 100]

\* np.sum(inlier_mask)
CountTrue(mask) == Cardinality({i \in 1..Len(mask) : mask[i]})

\* The complement that leaves every point selected.
AllSelected(mask) == [i \in 1..Len(mask) |-> TRUE]

\* ~best_inliers
Inverted(mask) == [i \in 1..Len(mask) |-> ~mask[i]]

RansacIterations == 0..MaxTrials

GroundInit ==
    /\ gpc = "start" /\ g_points \in GroundClouds
    /\ ransac_iterations \in RansacIterations
    /\ trial = 0 /\ candidates = 0 /\ best_inliers = NoMask /\ best_inlier_count = 0
    /\ non_ground_points = <<>> /\ ground_points = <<>>
    /\ JobIdle /\ DirsIdle /\ WorkerIdle /\ VoxelIdle
    /\ OutlierIdle /\ PoseIdle /\ PreIdle

\* Entry: fewer than 3 points are returned as non-ground at once; otherwise
\* best_inliers = NoMask, best_inlier_count = 0 and the loop begins.
GroundEnter ==
    /\ gpc = "start"
    /\ IF Len(g_points) < 3
       THEN /\ non_ground_points' = g_points /\ ground_points' = <<>>
            /\ gpc' = "done"
       ELSE /\ gpc' = "loop"
            /\ UNCHANGED <<non_ground_points, ground_points>>
    /\ best_inliers' = NoMask /\ best_inlier_count' = 0 /\ trial' = 0 /\ candidates' = 0
    /\ UNCHANGED <<g_points, ransac_iterations, jobvars, dirvars, workervars,
                   voxelvars, outliervars, posevars, prevars>>

\* One iteration of `for _ in range(ransac_iterations)`.
GroundTrial ==
    /\ gpc = "loop" /\ trial < ransac_iterations
    /\ \E s \in Samples(Len(g_points)) :
          IF ~Candidate(g_points, s)
          THEN UNCHANGED <<best_inliers, best_inlier_count, candidates>>
          ELSE LET inlier_mask == InlierMask(g_points, s)
                   inlier_count == CountTrue(inlier_mask)
               IN  /\ candidates' = 1
                   /\ IF inlier_count > best_inlier_count
                      THEN /\ best_inlier_count' = inlier_count
                           /\ best_inliers' = inlier_mask
                      ELSE UNCHANGED <<best_inliers, best_inlier_count>>
    /\ trial' = trial + 1
    /\ UNCHANGED <<gpc, g_points, ransac_iterations, non_ground_points, ground_points,
                   jobvars, dirvars, workervars, voxelvars, outliervars, posevars,
                   prevars>>

\* After the loop: all points non-ground when best_inliers is None, otherwise
\* points[best_inliers] and points[~best_inliers].
GroundReturn ==
    /\ gpc = "loop" /\ trial = ransac_iterations
    /\ IF best_inliers = NoMask
       THEN /\ non_ground_points' = g_points /\ ground_points' = <<>>
       ELSE /\ ground_points' = Select(g_points, best_inliers)
            /\ non_ground_points' = Select(g_points, Inverted(best_inliers))
    /\ gpc' = "done"
    /\ UNCHANGED <<g_points, ransac_iterations, trial, candidates, best_inliers,
                   best_inlier_count, jobvars, dirvars, workervars, voxelvars,
                   outliervars, posevars, prevars>>

GroundNext == GroundEnter \/ GroundTrial \/ GroundReturn

GroundSpec == GroundInit /\ [][GroundNext]_vars

\* ===================================================================
\* interpolate_pose (PoseSpec)
\* ===================================================================
\* Timestamps are whole numbers of ticks of half a microsecond, so that the
\* test `dt < 1e-6` is dt < EpsilonTicks.
PoseTimes == {0, 1, 4, 8}

QueryTimes == -1..9

\* Positions and rotations [qx, qy, qz, qw] as load_poses stores them: the
\* numbers of a csv line, taken as they are.
PoseValues ==
    {[position |-> <<0, 0, 0>>, rotation |-> <<0, 0, 0, 1>>],
     [position |-> <<10, 0, 0>>, rotation |-> <<0, 0, 0, 1>>],
     [position |-> <<10, 0, 0>>, rotation |-> <<0, 0, 1, 0>>],
     [position |-> <<0, 4, 0>>, rotation |-> <<0, 0, 0, 2>>]}

Pose(t, v) == [timestamp |-> t, position |-> v.position, rotation |-> v.rotation]

Ascending(ps) == \A i \in 1..(Len(ps) - 1) : ps[i].timestamp <= ps[i + 1].timestamp

StrictlyAscending(ps) == \A i \in 1..(Len(ps) - 1) : ps[i].timestamp < ps[i + 1].timestamp

\* Timestamp-ascending pose sequences of up to MaxPoses poses.
PoseSeqs ==
    {ps \in SeqsUpTo({Pose(t, v) : t \in PoseTimes, v \in PoseValues}, MaxPoses) :
        Ascending(ps)}

\* The value interpolate_pose returns for None.
NoPose == [timestamp |-> None]

\* A returned pose: the position is num / den on each axis and the rotation
\* is num / sqrt(sq) on each component.  A stored pose returned as it is has
\* den = 1 and sq = 1.
Returned(p) ==
    [timestamp |-> p.timestamp,
     position |-> [num |-> p.position, den |-> 1],
     rotation |-> [num |-> p.rotation, sq |-> 1]]

\* The position where the scan loop stops: the first pose with
\* pose.timestamp > timestamp (next_pose), or Len + 1 when the loop runs out.
RECURSIVE NextIndex(_, _, _)
NextIndex(ps, t, i) ==
    IF i > Len(ps) THEN i
    ELSE IF ps[i].timestamp <= t THEN NextIndex(ps, t, i + 1)
    ELSE i

\* A scan that takes `pose.timestamp < timestamp` for prev_pose and skips a
\* pose at the very timestamp: the last pose strictly before the query.
RECURSIVE PrevIndexStrict(_, _, _)
PrevIndexStrict(ps, t, i) ==
    IF i > Len(ps) \/ ps[i].timestamp > t THEN 0
    ELSE LET later == PrevIndexStrict(ps, t, i + 1)
         IN  IF later # 0 THEN later ELSE IF ps[i].timestamp < t THEN i ELSE 0

\* prev_pose after the loop: the last pose the loop saw with
\* pose.timestamp <= timestamp before it stopped (0 for None).
PrevIndex(ps, t, i) == NextIndex(ps, t, i) - 1

Blend(u, v, a, dt) == [c \in DOMAIN u |-> u[c] * (dt - a) + v[c] * a]

SumSq(v) == SumOver([c \in DOMAIN v |-> v[c] * v[c]], DOMAIN v)

\* Lines 153-168 with t = a / dt: position = prev * (1 - t) + next * t and
\* rotation = the same blend divided by its norm.
Interpolated(prev, next, t) ==
    LET dt == next.timestamp - prev.timestamp
        a == t - prev.timestamp
        clipped == IF a < 0 THEN 0 ELSE IF a > dt THEN dt ELSE a
        rot == Blend(prev.rotation, next.rotation, clipped, dt)
    IN  [timestamp |-> t,
         position |-> [num |-> Blend(prev.position, next.position, clipped, dt),
                       den |-> dt],
         rotation |-> [num |-> rot, sq |-> SumSq(rot)]]

interpolate_pose(ps, t) ==
    IF ps = <<>> THEN NoPose
    ELSE LET p == PrevIndex(ps, t, 1)
             n == NextIndex(ps, t, 1)
         IN  IF p = 0 THEN Returned(ps[1])
             ELSE IF n > Len(ps) THEN Returned(ps[p])
             ELSE IF ps[n].timestamp - ps[p].timestamp < EpsilonTicks
             THEN Returned(ps[p])
             ELSE Interpolated(ps[p], ps[n], t)

PoseInit ==
    /\ ipc = "start" /\ poses \in PoseSeqs /\ timestamp \in QueryTimes
    /\ interpolated = NoPose
    /\ JobIdle /\ DirsIdle /\ WorkerIdle /\ VoxelIdle
    /\ OutlierIdle /\ GroundIdle /\ PreIdle

\* interpolated = interpolate_pose(poses, timestamp)
Interpolate ==
    /\ ipc = "start"
    /\ interpolated' = interpolate_pose(poses, timestamp)
    /\ ipc' = "done"
    /\ UNCHANGED <<poses, timestamp, jobvars, dirvars, workervars, voxelvars,
                   outliervars, groundvars, prevars>>

PoseNext == Interpolate

PoseSpec == PoseInit /\ [][PoseNext]_vars

\* ===================================================================
\* preprocess_point_cloud (PreSpec)
\* ===================================================================
\* Input clouds large enough for the stage thresholds.  A cloud of n points
\* is laid out in parallel rows along x, RowStep apart within a row: two rows
\* on the plane z = 0 and, from GroundMinPoints + 1 points on, a third row
\* RowGap above the first.  Consecutive points go to consecutive rows, so the
\* leading points are not collinear.  `extra` more points follow, each one
\* unit beside a point of the first row.  The rows are further apart than
\* the reach of remove_statistical_outliers' neighbour query within a row, so
\* that every neighbour distance used is a whole number.
RowStep == 2

RowGap == 100

RowCount(n) == IF n > GroundMinPoints THEN 3 ELSE 2

PrePoint(n, i) ==
    LET r == (i - 1) % RowCount(n)
        x == RowStep * ((i - 1) \div RowCount(n))
    IN  <<x, IF r = 1 THEN RowGap ELSE 0, IF r = 2 THEN RowGap ELSE 0>>

PreCloud(n, extra) ==
    [i \in 1..(n + extra) |->
        IF i <= n THEN PrePoint(n, i) ELSE <<RowStep * (i - n - 1) + 1, 0, 0>>]

\* Cloud sizes at and around the two stage thresholds.
PreSizes ==
    {0, 3, OutlierMinPoints, OutlierMinPoints + 1, GroundMinPoints,
     GroundMinPoints + 1, GroundMinPoints + 30}

PreClouds == {PreCloud(n, x) : n \in PreSizes, x \in 0..MaxExtras}

PreVoxelSizes == {1, 2}

\* The cloud the function returns instead: the non-ground part.
KeptNonGround(pts, non_ground, ground) == non_ground

\* Lines 516-524: non_ground and ground are bound and logged, and `points`
\* is returned.
Kept(pts, non_ground, ground) == pts

PreInit ==
    /\ ppc = "start" /\ p_input \in PreClouds /\ p_voxel_size \in PreVoxelSizes
    /\ remove_outliers \in BOOLEAN /\ filter_ground \in BOOLEAN
    /\ p_points = p_input /\ p_downsampled = <<>> /\ p_cleaned = <<>>
    /\ p_result = <<>>
    /\ opc = "off" /\ o_points = <<>> /\ k_neighbors = DefaultKNeighbors
    /\ std_ratio = DefaultStdRatio /\ scipy = TRUE /\ filtered = <<>>
    /\ GroundIdle /\ PoseIdle
    /\ JobIdle /\ DirsIdle /\ WorkerIdle /\ VoxelIdle

\* `if len(points) == 0: return points`
PreEnter ==
    /\ ppc = "start"
    /\ IF Len(p_points) = 0
       THEN p_result' = p_points /\ ppc' = "done"
       ELSE ppc' = "downsample" /\ UNCHANGED p_result
    /\ UNCHANGED <<p_input, p_voxel_size, remove_outliers, filter_ground, p_points,
                   p_downsampled, p_cleaned, jobvars, dirvars, workervars,
                   voxelvars, outliervars, groundvars, posevars>>

\* Step 1: points = voxel_downsample(points, voxel_size)
PreDownsample ==
    /\ ppc = "downsample"
    /\ p_points' = voxel_downsample(p_points, p_voxel_size)
    /\ p_downsampled' = p_points'
    /\ ppc' = "outliers"
    /\ UNCHANGED <<p_input, p_voxel_size, remove_outliers, filter_ground, p_cleaned,
                   p_result, jobvars, dirvars, workervars, voxelvars, outliervars,
                   groundvars, posevars>>

\* Step 2: `if remove_outliers and len(points) > 50:
\*              points = remove_statistical_outliers(points)`
PreOutliers ==
    /\ ppc = "outliers"
    /\ p_points' = IF remove_outliers /\ Len(p_points) > OutlierMinPoints
                   THEN remove_statistical_outliers(p_points, k_neighbors, std_ratio,
                                                    scipy)
                   ELSE p_points
    /\ p_cleaned' = p_points'
    /\ ppc' = "ground"
    /\ UNCHANGED <<p_input, p_voxel_size, remove_outliers, filter_ground,
                   p_downsampled, p_result, jobvars, dirvars, workervars, voxelvars,
                   outliervars, groundvars, posevars>>

\* Step 3: `if filter_ground and len(points) > 100:
\*              non_ground, ground = filter_ground_plane(points)`, the call
\* being made with the default ransac_iterations.
PreGround ==
    /\ ppc = "ground"
    /\ IF filter_ground /\ Len(p_points) > GroundMinPoints
       THEN /\ gpc' = "start" /\ g_points' = p_points
            /\ ransac_iterations' = DefaultRansacIterations
            /\ ppc' = "segmenting"
       ELSE /\ ppc' = "return"
            /\ UNCHANGED <<gpc, g_points, ransac_iterations>>
    /\ UNCHANGED <<p_input, p_voxel_size, remove_outliers, filter_ground, p_points,
                   p_downsampled, p_cleaned, p_result, trial, candidates, best_inliers,
                   best_inlier_count, non_ground_points, ground_points, jobvars,
                   dirvars, workervars, voxelvars, outliervars, posevars>>

\* filter_ground_plane has returned into preprocess_point_cloud.
PreSegmented ==
    /\ ppc = "segmenting" /\ gpc = "done"
    /\ ppc' = "return"
    /\ UNCHANGED <<p_input, p_voxel_size, remove_outliers, filter_ground, p_points,
                   p_downsampled, p_cleaned, p_result, jobvars, dirvars, workervars,
                   voxelvars, outliervars, groundvars, posevars>>

\* `return points`
PreReturn ==
    /\ ppc = "return"
    /\ p_result' = Kept(p_points, non_ground_points, ground_points)
    /\ ppc' = "done"
    /\ UNCHANGED <<p_input, p_voxel_size, remove_outliers, filter_ground, p_points,
                   p_downsampled, p_cleaned, jobvars, dirvars, workervars, voxelvars,
                   outliervars, groundvars, posevars>>

PreNext ==
    \/ PreEnter \/ PreDownsample \/ PreOutliers \/ PreGround
    \/ GroundEnter \/ GroundTrial \/ GroundReturn
    \/ PreSegmented \/ PreReturn

PreSpec == PreInit /\ [][PreNext]_vars

\* ===================================================================
\* Claims about process_job (Spec)
\* ===================================================================
Status == stats["status"]
Recorded == out.record.stats

\* The cleaned point count, when preprocessing ran to its end.
Cleaned(st) == IF "preprocessed_points" \in DOMAIN st THEN st["preprocessed_points"] ELSE 0

\* C1: once process_job has run, whatever the outcome, the descriptor is in
\* exactly one of processed/ and failed/ and no longer in the queue directory;
\* it is never in both.
C1_ExactlyOneTerminal ==
    /\ ~(JobPath \in processed /\ JobPath \in failed)
    /\ (pc = "done") =>
        /\ JobPath \notin queue
        /\ (JobPath \in processed) # (JobPath \in failed)

\* A run that ended after the result write failed.
C1_Witness == pc = "done" /\ "result" \in exc /\ JobPath \in failed

\* C2 as stated: every exception raised after the descriptor was parsed is
\* recorded in a result record with status failed and an error field, and the
\* descriptor goes to processed/, never to failed/.
C2_Original ==
    (pc = "done" /\ job.parsed /\ exc # {}) =>
        /\ JobPath \in processed /\ JobPath \notin failed
        /\ out.result = "complete"
        /\ out.record.status = "failed" /\ "error" \in DOMAIN Recorded

\* C2 amended: an exception inside run_gaussian_splatting's try block
\* (preprocessing, trainer, exporter) is caught there and recorded in the stats
\* as status failed with an error field, and when the result write then
\* succeeds the descriptor goes to processed/ with that record; an exception
\* of the session loader, of the output-directory creation or of the result
\* write reaches process_job's handler: no complete result record exists and
\* the descriptor goes to failed/.
C2_CaughtOrFailedDir ==
    (pc = "done" /\ job.parsed) =>
        /\ (exc \cap {"pipeline", "trainer", "exporter"} # {}) =>
            /\ Status = "failed" /\ "error" \in DOMAIN stats
            /\ ("result" \notin exc) =>
                /\ JobPath \in processed /\ JobPath \notin failed
                /\ out.result = "complete" /\ Recorded = stats
        /\ (exc \cap {"loader", "mkdir", "result"} # {}) =>
            /\ JobPath \in failed /\ JobPath \notin processed
            /\ out.result # "complete"
        /\ (exc \cap {"loader", "mkdir"} # {}) => out.writes = 0

\* The exporter raised, the result was written, the descriptor is in processed/.
C2_Witness ==
    /\ pc = "done" /\ "exporter" \in exc /\ JobPath \in processed
    /\ out.record.status = "failed"

\* A descriptor that cannot be parsed into a Job, in the claim's words.
Unparsable(d) == d.json \in {"malformed", "array"} \/ ~(RequiredKeys \subseteq d.keys)

\* C3: a descriptor that is malformed JSON or lacks id, session_path or
\* output_path goes to failed/; no result record is written and neither the
\* session loader nor the pipeline, trainer or exporter is invoked for it.
C3_ParseFailure ==
    (descriptor # NoDescriptor /\ Unparsable(descriptor)) =>
        /\ ~job.parsed
        /\ calls = {} /\ out.writes = 0 /\ out.result = "none" /\ out.splat = "none"
        /\ JobPath \notin processed
        /\ pc \in {"except", "done"}
        /\ (pc = "done") => JobPath \in failed /\ JobPath \notin queue

\* An object that lacks only output_path, after process_job returned.
C3_Witness ==
    /\ pc = "done" /\ descriptor.json = "object"
    /\ descriptor.keys = {"id", "session_path"} /\ JobPath \in failed

\* C5: with at least MinSplatPoints cleaned points and no trainer, the
\* pipeline calls the plain exporter and (unless that export raises, which is
\* recorded as failed) leaves splat.ply as the point cloud and records status
\* point_cloud_only, output_points, a message and no output_gaussians; status
\* success and output_gaussians appear only together, and only when the
\* trainer ran and the Gaussian file was exported.
C5_Fallback ==
    (Status # "none") =>
        /\ (~HAS_GSPLAT /\ Cleaned(stats) >= MinSplatPoints) =>
            /\ "exporter" \in calls /\ "trainer" \notin calls
            /\ \/ "exporter" \in exc /\ Status = "failed"
               \/ /\ Status = "point_cloud_only" /\ out.splat = "points"
                  /\ "output_points" \in DOMAIN stats
                  /\ stats["output_points"] = Cleaned(stats)
                  /\ "message" \in DOMAIN stats
                  /\ "output_gaussians" \notin DOMAIN stats
        /\ (Status = "success" \/ "output_gaussians" \in DOMAIN stats) =>
            /\ HAS_GSPLAT /\ Status = "success"
            /\ "output_gaussians" \in DOMAIN stats /\ "output_points" \notin DOMAIN stats
            /\ {"trainer", "exporter"} \subseteq calls
            /\ exc \cap {"trainer", "exporter"} = {}
            /\ out.splat = "gaussians"

\* The fallback taken and its result record written.
C5_Witness ==
    /\ ~HAS_GSPLAT /\ Cleaned(stats) >= MinSplatPoints /\ out.result = "complete"
    /\ out.record.status = "point_cloud_only" /\ out.splat = "points"

C7_Original == "loader" \notin exc

\* The stats fields the result record's schema does not mark optional.
RequiredStats == {"input_points", "input_images", "input_poses", "iterations",
                  "duration_secs"}

\* C8: every result record written carries all the non-optional stats fields,
\* and at most one result record is written per run.
C8_Original ==
    /\ out.writes <= 1
    /\ (out.writes > 0) => RequiredStats \subseteq DOMAIN Recorded

\* ===================================================================
\* Claims about the worker (WorkerSpec)
\* ===================================================================
\* C4: every descriptor that appears in the queue directory, at startup or at
\* any later moment, is processed exactly once and reaches a terminal
\* directory: no descriptor is processed twice, and once the worker has
\* nothing left to do (watching, no event pending, no job running) every
\* descriptor created so far has been processed and relocated.
C4_Original ==
    /\ \A f \in Files : runs[f] <= 1
    /\ (main_pc = "watching" /\ events = <<>> /\ proc = 0) =>
        \A f \in created :
            /\ runs[f] = 1
            /\ f \notin queue
            /\ f \in processed \cup failed

\* ===================================================================
\* Claims about voxel_downsample (VoxelSpec)
\* ===================================================================
\* The cell of a point in the claims' words: floor(coord / cell_size) per axis.
Cell(p, size) == <<p[1] \div size, p[2] \div size, p[3] \div size>>

\* C9: downsampling an already downsampled cloud at the same cell size returns
\* it unchanged: the same points in the same order.
C9_Idempotent == (vpc = "twice") => again = downsampled

\* A cloud that lost points and was reordered by the first pass.
C9_Witness ==
    /\ vpc = "twice" /\ Len(downsampled) >= 2 /\ Len(downsampled) < Len(points)
    /\ downsampled[1] # points[1]

\* C10: the output keeps exactly one point per occupied cell: no two output
\* points share a cell, every input point's cell has an output point, every
\* output point is the unmodified first input point of its cell, and the
\* output is no longer than the input.
C10_OnePerCell ==
    (vpc # "start") =>
        /\ \A i, j \in 1..Len(downsampled) :
            (i # j) => Cell(downsampled[i], voxel_size) # Cell(downsampled[j], voxel_size)
        /\ \A i \in 1..Len(points) : \E j \in 1..Len(downsampled) :
            Cell(downsampled[j], voxel_size) = Cell(points[i], voxel_size)
        /\ \A j \in 1..Len(downsampled) : \E i \in 1..Len(points) :
            /\ downsampled[j] = points[i]
            /\ \A k \in 1..(i - 1) :
                Cell(points[k], voxel_size) # Cell(points[i], voxel_size)
        /\ Len(downsampled) <= Len(points)

\* Two different points of one cell in the input, the later one dropped.
C10_Witness ==
    /\ vpc = "once" /\ Len(downsampled) >= 2
    /\ \E i, k \in 1..Len(points) :
        /\ k < i /\ points[k] # points[i]
        /\ Cell(points[k], voxel_size) = Cell(points[i], voxel_size)
        /\ \A j \in 1..Len(downsampled) : downsampled[j] # points[i]

\* ===================================================================
\* Claims about remove_statistical_outliers (OutlierSpec)
\* ===================================================================
\* Whether the filter ran: enough points for the neighbour query and scipy
\* importable.
OutlierFilterRan == opc = "done" /\ Len(o_points) >= k_neighbors + 1 /\ scipy

\* All per-point mean neighbour distances are equal (the standard deviation
\* is 0).
Uniform(pts, k) ==
    LET s == DistanceSums(pts, k) IN \A i, j \in 1..Len(pts) : s[i] = s[j]

\* The input points whose own mean distance exceeds mean + std_ratio * std:
\* dev[i] > 0 and n * dev[i]^2 > std_ratio^2 * sum(dev^2).
Exceeding(pts, k, ratio) ==
    LET dev == Deviations(DistanceSums(pts, k))
        q == SumSquares(ratio * ratio, dev)
    IN  {i \in 1..Len(pts) :
            dev[i] > 0 /\ LessParts(q, Times(Len(dev), dev[i] * dev[i]))}

\* C11 (part): outlier removal never increases the point count.
C11_NeverIncreases == (opc = "done") => Len(filtered) <= Len(o_points)

\* C11 as stated: outlier removal never increases the point count, removes
\* no point from a perfectly uniform cloud or under a very large std_ratio,
\* and drops a point only when its own mean distance exceeds
\* mean + std_ratio * std.
C11_Original ==
    (opc = "done") =>
        /\ Len(filtered) <= Len(o_points)
        /\ OutlierFilterRan =>
            /\ Uniform(o_points, k_neighbors) => filtered = o_points
            /\ std_ratio = LargeStdRatio => filtered = o_points
            /\ filtered = Select(o_points,
                   [i \in 1..Len(o_points) |->
                       i \notin Exceeding(o_points, k_neighbors, std_ratio)])

\* ===================================================================
\* Claims about filter_ground_plane (GroundSpec)
\* ===================================================================
\* How many entries of the sequence equal p.
Occurrences(p, seq) == Cardinality({i \in 1..Len(seq) : seq[i] = p})

\* The points that occur in the sequence.
PointsOf(seq) == {seq[i] : i \in 1..Len(seq)}

\* C12: the (non-ground, ground) pair returned by filter_ground_plane
\* partitions the input exactly (every input point, counted with its
\* repetitions, is in exactly one part and no other point appears), whatever
\* the trials drew; with fewer than 3 points or no valid horizontal candidate
\* in any trial, ground is empty and non-ground is the whole input.
C12_Partition ==
    (gpc = "done") =>
        /\ PointsOf(non_ground_points) \cup PointsOf(ground_points) = PointsOf(g_points)
        /\ \A p \in PointsOf(g_points) :
              Occurrences(p, non_ground_points) + Occurrences(p, ground_points)
                  = Occurrences(p, g_points)
        /\ Len(non_ground_points) + Len(ground_points) = Len(g_points)
        /\ (Len(g_points) < 3 \/ candidates = 0) =>
              (ground_points = <<>> /\ non_ground_points = g_points)

\* A plane was found that splits a cloud into ground and non-ground points,
\* after a later trial replaced an earlier best candidate or not.
C12_Witness ==
    /\ gpc = "done" /\ candidates = 1
    /\ Len(ground_points) >= 3 /\ Len(non_ground_points) >= 1

\* ===================================================================
\* Claims about interpolate_pose (PoseSpec)
\* ===================================================================
\* The returned position equals the stored position p.
SamePosition(r, p) == \A c \in 1..3 : r.position.num[c] = p[c] * r.position.den

\* The returned rotation equals the stored rotation q.
SameRotation(r, q) ==
    /\ r.rotation.sq > 0
    /\ \A c \in 1..4 : /\ r.rotation.num[c] * r.rotation.num[c]
                              = q[c] * q[c] * r.rotation.sq
                       /\ r.rotation.num[c] * q[c] >= 0

\* The returned rotation equals the stored rotation q divided by its norm.
UnitRotationOf(r, q) ==
    /\ r.rotation.sq > 0 /\ SumSq(q) > 0
    /\ \A c \in 1..4 : /\ r.rotation.num[c] * r.rotation.num[c] * SumSq(q)
                              = q[c] * q[c] * r.rotation.sq
                       /\ r.rotation.num[c] * q[c] >= 0

\* The poses whose timestamp is the query timestamp.
AtQuery == {i \in 1..Len(poses) : poses[i].timestamp = timestamp}

\* C13 as stated: for a non-empty, timestamp-ascending pose sequence,
\* interpolate_pose queried at the exact timestamp of an existing pose (the
\* first, an interior or the last one) returns that pose's position and
\* rotation unchanged; for an empty sequence it returns none.  Ascending is
\* read as strictly ascending, so that "that pose" is one pose.
C13_Original ==
    (ipc = "done") =>
        /\ poses = <<>> => interpolated = NoPose
        /\ StrictlyAscending(poses) =>
              \A i \in AtQuery :
                  /\ SamePosition(interpolated, poses[i].position)
                  /\ SameRotation(interpolated, poses[i].rotation)

\* C13 amended: queried at the exact timestamp of an existing pose,
\* interpolate_pose returns the position of the last pose with that timestamp
\* unchanged; it returns that pose's rotation unchanged when no later pose
\* exists or the next pose is less than 1e-6 s later, and otherwise that
\* rotation divided by its norm (the same rotation exactly when it has unit
\* norm, and no rotation at all when it is zero); for an empty sequence it
\* returns none.
C13_ExactTimestamp ==
    (ipc = "done") =>
        /\ poses = <<>> => interpolated = NoPose
        /\ AtQuery # {} =>
              LET i == CHOOSE j \in AtQuery : \A l \in AtQuery : l <= j
                  q == poses[i].rotation
                  asis == \/ i = Len(poses)
                          \/ poses[i + 1].timestamp - timestamp < EpsilonTicks
              IN  /\ interpolated # NoPose
                  /\ interpolated.timestamp = timestamp
                  /\ SamePosition(interpolated, poses[i].position)
                  /\ asis => SameRotation(interpolated, q)
                  /\ (~asis /\ SumSq(q) > 0) => UnitRotationOf(interpolated, q)
                  /\ (~asis /\ SumSq(q) = 1) => SameRotation(interpolated, q)
                  /\ (~asis /\ SumSq(q) # 1) => ~SameRotation(interpolated, q)

\* The query is the timestamp of an interior pose of three, and the pose
\* after it is far enough for the interpolation branch to run.
C13_Witness ==
    /\ ipc = "done" /\ Len(poses) = 3 /\ StrictlyAscending(poses)
    /\ timestamp = poses[2].timestamp
    /\ poses[3].timestamp - poses[2].timestamp >= EpsilonTicks
    /\ SumSq(poses[2].rotation) = 1
    /\ interpolated.position.den > 1

\* ===================================================================
\* Claims about preprocess_point_cloud (PreSpec)
\* ===================================================================
\* The cloud the outlier stage leaves for a downsampled cloud d.
AfterOutliers(d) ==
    IF remove_outliers /\ Len(d) > OutlierMinPoints
    THEN remove_statistical_outliers(d, DefaultKNeighbors, DefaultStdRatio, scipy)
    ELSE d

\* C14: for every input cloud and every setting of the filter_ground flag,
\* the cloud preprocess_point_cloud returns is exactly the voxel-downsampled
\* cloud with outlier removal applied (applied only when outlier removal is
\* asked for and more than 50 points remain after downsampling); the ground
\* segmentation runs only when asked for and more than 100 points remain,
\* and removes or changes no point of the returned cloud.
C14_GroundNotApplied ==
    (ppc = "done") =>
        /\ p_input = <<>> => p_result = <<>>
        /\ p_input # <<>> =>
              /\ p_downsampled = voxel_downsample(p_input, p_voxel_size)
              /\ p_cleaned = AfterOutliers(p_downsampled)
              /\ p_result = p_cleaned
              /\ (gpc = "done") <=> (filter_ground /\ Len(p_cleaned) > GroundMinPoints)
              /\ gpc = "done" =>
                    /\ g_points = p_cleaned
                    /\ Len(non_ground_points) + Len(ground_points) = Len(p_result)

\* The three stages all ran and each had an effect: downsampling merged
\* points, outlier removal dropped points, and the segmentation found ground
\* points among the returned ones.
C14_Witness ==
    /\ ppc = "done" /\ filter_ground /\ remove_outliers /\ gpc = "done"
    /\ Len(p_downsampled) < Len(p_input)
    /\ Len(p_cleaned) < Len(p_downsampled)
    /\ ground_points # <<>> /\ non_ground_points # <<>>
    /\ Len(p_result) = Len(ground_points) + Len(non_ground_points)

\* ===================================================================
\* Claims about the order of result write and relocation (Spec)
\* ===================================================================
\* C15: in every reachable state the descriptor is in processed/ only if the
\* job's result record was completely written before the relocation; when
\* process_job stops before or during the result write the descriptor is
\* relocated to failed/; and once the descriptor has left the queue directory
\* no result record is written (the output directory no longer changes).
C15_WriteBeforeRelocation ==
    /\ [](/\ JobPath \in processed => (out.result = "complete" /\ out.writes = 1)
          /\ (pc = "done" /\ out.result # "complete") =>
                (JobPath \in failed /\ JobPath \notin queue)
          /\ (pc = "except" /\ "result" \in exc) => JobPath \in queue)
    /\ [][JobPath \notin queue => out' = out]_vars

\* A run whose result record was written in full and whose descriptor was
\* then moved to processed/.
C15_Witness ==
    /\ pc = "done" /\ exc = {} /\ JobPath \in processed
    /\ out.result = "complete" /\ out.writes = 1

====
